---- MODULE Spec2Model ----
(***************************************************************************)
(* Model of gato_experto.py: a console tic-tac-toe whose opponent looks   *)
(* its move up in a persistent knowledge file and asks to be taught when  *)
(* it finds none.                                                          *)
(*                                                                         *)
(* Representation.  A Python str read from the console or from a JSON     *)
(* string value is a sequence of characters, each a string (the character *)
(* itself, or the text of its Python escape), so that strip(), isdigit()  *)
(* and int() are computed character by character.  A board is a           *)
(* sequence of 9 cells; Python's index p is the model's index p + 1.  A   *)
(* board key is a TLA+ string (the concatenation of the cells).  The      *)
(* content of the durable file is modelled as the JSON document it holds. *)
(***************************************************************************)
EXTENDS Integers, Sequences, FiniteSets, TLC

VARIABLES
    pc,              \* where the program is: a prompt it blocks on, or a step
    board,           \* game.board
    current_player,  \* play_round's current_player
    moves,           \* kb.moves
    file,            \* what conocimiento_gato.json holds
    move,            \* play_round's local `move`
    winner,          \* play_round's local `winner`
    out,             \* the text of the last print() call
    err,             \* the exception that ended the program, or "None"
    round,           \* rounds started so far
    taught,          \* history: what learn_move has recorded and saved
    applied,         \* history: calls of apply_move in this round
    teaches          \* history: entries into the teach flow in this round

vars == <<pc, board, current_player, moves, file, move, winner, out, err,
          round, taught, applied, teaches>>

(***************************************************************************)
(* Bounds of the model.                                                    *)
(***************************************************************************)
MaxRounds == 2

(***************************************************************************)
(* Python values.                                                          *)
(***************************************************************************)
None == "None"
EmptyDict == [k \in {} |-> 0]

Ok(v) == [exc |-> "None", val |-> v]
Raise(e) == [exc |-> e, val |-> 0]

\* Characters.  A character that a TLA+ string can show is written as itself
\* (the tab, line feed, form feed and carriage return with the escapes \t,
\* \n, \f and \r); any other character is written as the text of its Python
\* escape, the way repr() prints it: "\\x0b", "\\xa0", "\\u0663",
\* "\\U0001d7ce".  The tables are those of CPython 3.11 (Unicode 14.0).

\* the characters with a decimal value (str.isdecimal()), which int() reads:
\* one row per script, the digits 0 to 9 in order
DecimalRows ==
    <<
      << "0", "1", "2", "3", "4", "5", "6", "7", "8", "9" >>,
      << "\\u0660", "\\u0661", "\\u0662", "\\u0663", "\\u0664", "\\u0665",
         "\\u0666", "\\u0667", "\\u0668", "\\u0669" >>,
      << "\\u06f0", "\\u06f1", "\\u06f2", "\\u06f3", "\\u06f4", "\\u06f5",
         "\\u06f6", "\\u06f7", "\\u06f8", "\\u06f9" >>,
      << "\\u07c0", "\\u07c1", "\\u07c2", "\\u07c3", "\\u07c4", "\\u07c5",
         "\\u07c6", "\\u07c7", "\\u07c8", "\\u07c9" >>,
      << "\\u0966", "\\u0967", "\\u0968", "\\u0969", "\\u096a", "\\u096b",
         "\\u096c", "\\u096d", "\\u096e", "\\u096f" >>,
      << "\\u09e6", "\\u09e7", "\\u09e8", "\\u09e9", "\\u09ea", "\\u09eb",
         "\\u09ec", "\\u09ed", "\\u09ee", "\\u09ef" >>,
      << "\\u0a66", "\\u0a67", "\\u0a68", "\\u0a69", "\\u0a6a", "\\u0a6b",
         "\\u0a6c", "\\u0a6d", "\\u0a6e", "\\u0a6f" >>,
      << "\\u0ae6", "\\u0ae7", "\\u0ae8", "\\u0ae9", "\\u0aea", "\\u0aeb",
         "\\u0aec", "\\u0aed", "\\u0aee", "\\u0aef" >>,
      << "\\u0b66", "\\u0b67", "\\u0b68", "\\u0b69", "\\u0b6a", "\\u0b6b",
         "\\u0b6c", "\\u0b6d", "\\u0b6e", "\\u0b6f" >>,
      << "\\u0be6", "\\u0be7", "\\u0be8", "\\u0be9", "\\u0bea", "\\u0beb",
         "\\u0bec", "\\u0bed", "\\u0bee", "\\u0bef" >>,
      << "\\u0c66", "\\u0c67", "\\u0c68", "\\u0c69", "\\u0c6a", "\\u0c6b",
         "\\u0c6c", "\\u0c6d", "\\u0c6e", "\\u0c6f" >>,
      << "\\u0ce6", "\\u0ce7", "\\u0ce8", "\\u0ce9", "\\u0cea", "\\u0ceb",
         "\\u0cec", "\\u0ced", "\\u0cee", "\\u0cef" >>,
      << "\\u0d66", "\\u0d67", "\\u0d68", "\\u0d69", "\\u0d6a", "\\u0d6b",
         "\\u0d6c", "\\u0d6d", "\\u0d6e", "\\u0d6f" >>,
      << "\\u0de6", "\\u0de7", "\\u0de8", "\\u0de9", "\\u0dea", "\\u0deb",
         "\\u0dec", "\\u0ded", "\\u0dee", "\\u0def" >>,
      << "\\u0e50", "\\u0e51", "\\u0e52", "\\u0e53", "\\u0e54", "\\u0e55",
         "\\u0e56", "\\u0e57", "\\u0e58", "\\u0e59" >>,
      << "\\u0ed0", "\\u0ed1", "\\u0ed2", "\\u0ed3", "\\u0ed4", "\\u0ed5",
         "\\u0ed6", "\\u0ed7", "\\u0ed8", "\\u0ed9" >>,
      << "\\u0f20", "\\u0f21", "\\u0f22", "\\u0f23", "\\u0f24", "\\u0f25",
         "\\u0f26", "\\u0f27", "\\u0f28", "\\u0f29" >>,
      << "\\u1040", "\\u1041", "\\u1042", "\\u1043", "\\u1044", "\\u1045",
         "\\u1046", "\\u1047", "\\u1048", "\\u1049" >>,
      << "\\u1090", "\\u1091", "\\u1092", "\\u1093", "\\u1094", "\\u1095",
         "\\u1096", "\\u1097", "\\u1098", "\\u1099" >>,
      << "\\u17e0", "\\u17e1", "\\u17e2", "\\u17e3", "\\u17e4", "\\u17e5",
         "\\u17e6", "\\u17e7", "\\u17e8", "\\u17e9" >>,
      << "\\u1810", "\\u1811", "\\u1812", "\\u1813", "\\u1814", "\\u1815",
         "\\u1816", "\\u1817", "\\u1818", "\\u1819" >>,
      << "\\u1946", "\\u1947", "\\u1948", "\\u1949", "\\u194a", "\\u194b",
         "\\u194c", "\\u194d", "\\u194e", "\\u194f" >>,
      << "\\u19d0", "\\u19d1", "\\u19d2", "\\u19d3", "\\u19d4", "\\u19d5",
         "\\u19d6", "\\u19d7", "\\u19d8", "\\u19d9" >>,
      << "\\u1a80", "\\u1a81", "\\u1a82", "\\u1a83", "\\u1a84", "\\u1a85",
         "\\u1a86", "\\u1a87", "\\u1a88", "\\u1a89" >>,
      << "\\u1a90", "\\u1a91", "\\u1a92", "\\u1a93", "\\u1a94", "\\u1a95",
         "\\u1a96", "\\u1a97", "\\u1a98", "\\u1a99" >>,
      << "\\u1b50", "\\u1b51", "\\u1b52", "\\u1b53", "\\u1b54", "\\u1b55",
         "\\u1b56", "\\u1b57", "\\u1b58", "\\u1b59" >>,
      << "\\u1bb0", "\\u1bb1", "\\u1bb2", "\\u1bb3", "\\u1bb4", "\\u1bb5",
         "\\u1bb6", "\\u1bb7", "\\u1bb8", "\\u1bb9" >>,
      << "\\u1c40", "\\u1c41", "\\u1c42", "\\u1c43", "\\u1c44", "\\u1c45",
         "\\u1c46", "\\u1c47", "\\u1c48", "\\u1c49" >>,
      << "\\u1c50", "\\u1c51", "\\u1c52", "\\u1c53", "\\u1c54", "\\u1c55",
         "\\u1c56", "\\u1c57", "\\u1c58", "\\u1c59" >>,
      << "\\ua620", "\\ua621", "\\ua622", "\\ua623", "\\ua624", "\\ua625",
         "\\ua626", "\\ua627", "\\ua628", "\\ua629" >>,
      << "\\ua8d0", "\\ua8d1", "\\ua8d2", "\\ua8d3", "\\ua8d4", "\\ua8d5",
         "\\ua8d6", "\\ua8d7", "\\ua8d8", "\\ua8d9" >>,
      << "\\ua900", "\\ua901", "\\ua902", "\\ua903", "\\ua904", "\\ua905",
         "\\ua906", "\\ua907", "\\ua908", "\\ua909" >>,
      << "\\ua9d0", "\\ua9d1", "\\ua9d2", "\\ua9d3", "\\ua9d4", "\\ua9d5",
         "\\ua9d6", "\\ua9d7", "\\ua9d8", "\\ua9d9" >>,
      << "\\ua9f0", "\\ua9f1", "\\ua9f2", "\\ua9f3", "\\ua9f4", "\\ua9f5",
         "\\ua9f6", "\\ua9f7", "\\ua9f8", "\\ua9f9" >>,
      << "\\uaa50", "\\uaa51", "\\uaa52", "\\uaa53", "\\uaa54", "\\uaa55",
         "\\uaa56", "\\uaa57", "\\uaa58", "\\uaa59" >>,
      << "\\uabf0", "\\uabf1", "\\uabf2", "\\uabf3", "\\uabf4", "\\uabf5",
         "\\uabf6", "\\uabf7", "\\uabf8", "\\uabf9" >>,
      << "\\uff10", "\\uff11", "\\uff12", "\\uff13", "\\uff14", "\\uff15",
         "\\uff16", "\\uff17", "\\uff18", "\\uff19" >>,
      << "\\U000104a0", "\\U000104a1", "\\U000104a2", "\\U000104a3",
         "\\U000104a4", "\\U000104a5", "\\U000104a6", "\\U000104a7",
         "\\U000104a8", "\\U000104a9" >>,
      << "\\U00010d30", "\\U00010d31", "\\U00010d32", "\\U00010d33",
         "\\U00010d34", "\\U00010d35", "\\U00010d36", "\\U00010d37",
         "\\U00010d38", "\\U00010d39" >>,
      << "\\U00011066", "\\U00011067", "\\U00011068", "\\U00011069",
         "\\U0001106a", "\\U0001106b", "\\U0001106c", "\\U0001106d",
         "\\U0001106e", "\\U0001106f" >>,
      << "\\U000110f0", "\\U000110f1", "\\U000110f2", "\\U000110f3",
         "\\U000110f4", "\\U000110f5", "\\U000110f6", "\\U000110f7",
         "\\U000110f8", "\\U000110f9" >>,
      << "\\U00011136", "\\U00011137", "\\U00011138", "\\U00011139",
         "\\U0001113a", "\\U0001113b", "\\U0001113c", "\\U0001113d",
         "\\U0001113e", "\\U0001113f" >>,
      << "\\U000111d0", "\\U000111d1", "\\U000111d2", "\\U000111d3",
         "\\U000111d4", "\\U000111d5", "\\U000111d6", "\\U000111d7",
         "\\U000111d8", "\\U000111d9" >>,
      << "\\U000112f0", "\\U000112f1", "\\U000112f2", "\\U000112f3",
         "\\U000112f4", "\\U000112f5", "\\U000112f6", "\\U000112f7",
         "\\U000112f8", "\\U000112f9" >>,
      << "\\U00011450", "\\U00011451", "\\U00011452", "\\U00011453",
         "\\U00011454", "\\U00011455", "\\U00011456", "\\U00011457",
         "\\U00011458", "\\U00011459" >>,
      << "\\U000114d0", "\\U000114d1", "\\U000114d2", "\\U000114d3",
         "\\U000114d4", "\\U000114d5", "\\U000114d6", "\\U000114d7",
         "\\U000114d8", "\\U000114d9" >>,
      << "\\U00011650", "\\U00011651", "\\U00011652", "\\U00011653",
         "\\U00011654", "\\U00011655", "\\U00011656", "\\U00011657",
         "\\U00011658", "\\U00011659" >>,
      << "\\U000116c0", "\\U000116c1", "\\U000116c2", "\\U000116c3",
         "\\U000116c4", "\\U000116c5", "\\U000116c6", "\\U000116c7",
         "\\U000116c8", "\\U000116c9" >>,
      << "\\U00011730", "\\U00011731", "\\U00011732", "\\U00011733",
         "\\U00011734", "\\U00011735", "\\U00011736", "\\U00011737",
         "\\U00011738", "\\U00011739" >>,
      << "\\U000118e0", "\\U000118e1", "\\U000118e2", "\\U000118e3",
         "\\U000118e4", "\\U000118e5", "\\U000118e6", "\\U000118e7",
         "\\U000118e8", "\\U000118e9" >>,
      << "\\U00011950", "\\U00011951", "\\U00011952", "\\U00011953",
         "\\U00011954", "\\U00011955", "\\U00011956", "\\U00011957",
         "\\U00011958", "\\U00011959" >>,
      << "\\U00011c50", "\\U00011c51", "\\U00011c52", "\\U00011c53",
         "\\U00011c54", "\\U00011c55", "\\U00011c56", "\\U00011c57",
         "\\U00011c58", "\\U00011c59" >>,
      << "\\U00011d50", "\\U00011d51", "\\U00011d52", "\\U00011d53",
         "\\U00011d54", "\\U00011d55", "\\U00011d56", "\\U00011d57",
         "\\U00011d58", "\\U00011d59" >>,
      << "\\U00011da0", "\\U00011da1", "\\U00011da2", "\\U00011da3",
         "\\U00011da4", "\\U00011da5", "\\U00011da6", "\\U00011da7",
         "\\U00011da8", "\\U00011da9" >>,
      << "\\U00016a60", "\\U00016a61", "\\U00016a62", "\\U00016a63",
         "\\U00016a64", "\\U00016a65", "\\U00016a66", "\\U00016a67",
         "\\U00016a68", "\\U00016a69" >>,
      << "\\U00016ac0", "\\U00016ac1", "\\U00016ac2", "\\U00016ac3",
         "\\U00016ac4", "\\U00016ac5", "\\U00016ac6", "\\U00016ac7",
         "\\U00016ac8", "\\U00016ac9" >>,
      << "\\U00016b50", "\\U00016b51", "\\U00016b52", "\\U00016b53",
         "\\U00016b54", "\\U00016b55", "\\U00016b56", "\\U00016b57",
         "\\U00016b58", "\\U00016b59" >>,
      << "\\U0001d7ce", "\\U0001d7cf", "\\U0001d7d0", "\\U0001d7d1",
         "\\U0001d7d2", "\\U0001d7d3", "\\U0001d7d4", "\\U0001d7d5",
         "\\U0001d7d6", "\\U0001d7d7" >>,
      << "\\U0001d7d8", "\\U0001d7d9", "\\U0001d7da", "\\U0001d7db",
         "\\U0001d7dc", "\\U0001d7dd", "\\U0001d7de", "\\U0001d7df",
         "\\U0001d7e0", "\\U0001d7e1" >>,
      << "\\U0001d7e2", "\\U0001d7e3", "\\U0001d7e4", "\\U0001d7e5",
         "\\U0001d7e6", "\\U0001d7e7", "\\U0001d7e8", "\\U0001d7e9",
         "\\U0001d7ea", "\\U0001d7eb" >>,
      << "\\U0001d7ec", "\\U0001d7ed", "\\U0001d7ee", "\\U0001d7ef",
         "\\U0001d7f0", "\\U0001d7f1", "\\U0001d7f2", "\\U0001d7f3",
         "\\U0001d7f4", "\\U0001d7f5" >>,
      << "\\U0001d7f6", "\\U0001d7f7", "\\U0001d7f8", "\\U0001d7f9",
         "\\U0001d7fa", "\\U0001d7fb", "\\U0001d7fc", "\\U0001d7fd",
         "\\U0001d7fe", "\\U0001d7ff" >>,
      << "\\U0001e140", "\\U0001e141", "\\U0001e142", "\\U0001e143",
         "\\U0001e144", "\\U0001e145", "\\U0001e146", "\\U0001e147",
         "\\U0001e148", "\\U0001e149" >>,
      << "\\U0001e2f0", "\\U0001e2f1", "\\U0001e2f2", "\\U0001e2f3",
         "\\U0001e2f4", "\\U0001e2f5", "\\U0001e2f6", "\\U0001e2f7",
         "\\U0001e2f8", "\\U0001e2f9" >>,
      << "\\U0001e950", "\\U0001e951", "\\U0001e952", "\\U0001e953",
         "\\U0001e954", "\\U0001e955", "\\U0001e956", "\\U0001e957",
         "\\U0001e958", "\\U0001e959" >>,
      << "\\U0001fbf0", "\\U0001fbf1", "\\U0001fbf2", "\\U0001fbf3",
         "\\U0001fbf4", "\\U0001fbf5", "\\U0001fbf6", "\\U0001fbf7",
         "\\U0001fbf8", "\\U0001fbf9" >>
    >>

\* characters for which str.isdigit() is true and int() has a decimal value
DecimalValue ==
    [c \in UNION {{DecimalRows[r][i] : i \in 1..10} : r \in 1..Len(DecimalRows)} |->
        (CHOOSE i \in 1..10 : \E r \in 1..Len(DecimalRows) : DecimalRows[r][i] = c) - 1]

\* characters for which str.isdigit() is true and that int() rejects
\* (Numeric_Type=Digit but not Decimal: superscripts and the like)
NonDecimalDigits ==
    {
      "²", "³", "¹", "\\u1369", "\\u136a", "\\u136b", "\\u136c", "\\u136d",
      "\\u136e", "\\u136f", "\\u1370", "\\u1371", "\\u19da", "\\u2070",
      "\\u2074", "\\u2075", "\\u2076", "\\u2077", "\\u2078", "\\u2079",
      "\\u2080", "\\u2081", "\\u2082", "\\u2083", "\\u2084", "\\u2085",
      "\\u2086", "\\u2087", "\\u2088", "\\u2089", "\\u2460", "\\u2461",
      "\\u2462", "\\u2463", "\\u2464", "\\u2465", "\\u2466", "\\u2467",
      "\\u2468", "\\u2474", "\\u2475", "\\u2476", "\\u2477", "\\u2478",
      "\\u2479", "\\u247a", "\\u247b", "\\u247c", "\\u2488", "\\u2489",
      "\\u248a", "\\u248b", "\\u248c", "\\u248d", "\\u248e", "\\u248f",
      "\\u2490", "\\u24ea", "\\u24f5", "\\u24f6", "\\u24f7", "\\u24f8",
      "\\u24f9", "\\u24fa", "\\u24fb", "\\u24fc", "\\u24fd", "\\u24ff",
      "\\u2776", "\\u2777", "\\u2778", "\\u2779", "\\u277a", "\\u277b",
      "\\u277c", "\\u277d", "\\u277e", "\\u2780", "\\u2781", "\\u2782",
      "\\u2783", "\\u2784", "\\u2785", "\\u2786", "\\u2787", "\\u2788",
      "\\u278a", "\\u278b", "\\u278c", "\\u278d", "\\u278e", "\\u278f",
      "\\u2790", "\\u2791", "\\u2792", "\\U00010a40", "\\U00010a41",
      "\\U00010a42", "\\U00010a43", "\\U00010e60", "\\U00010e61",
      "\\U00010e62", "\\U00010e63", "\\U00010e64", "\\U00010e65",
      "\\U00010e66", "\\U00010e67", "\\U00010e68", "\\U00011052",
      "\\U00011053", "\\U00011054", "\\U00011055", "\\U00011056",
      "\\U00011057", "\\U00011058", "\\U00011059", "\\U0001105a",
      "\\U0001f100", "\\U0001f101", "\\U0001f102", "\\U0001f103",
      "\\U0001f104", "\\U0001f105", "\\U0001f106", "\\U0001f107",
      "\\U0001f108", "\\U0001f109", "\\U0001f10a"
    }

\* the characters str.strip() removes (str.isspace())
Whitespace ==
    {
      "\t", "\n", "\\x0b", "\f", "\r", "\\x1c", "\\x1d", "\\x1e", "\\x1f",
      " ", "\\x85", "\\xa0", "\\u1680", "\\u2000", "\\u2001", "\\u2002",
      "\\u2003", "\\u2004", "\\u2005", "\\u2006", "\\u2007", "\\u2008",
      "\\u2009", "\\u200a", "\\u2028", "\\u2029", "\\u202f", "\\u205f",
      "\\u3000"
    }

\* the characters int() skips around a number: the same but for the four
\* separators U+001C to U+001F
IntWhitespace == Whitespace \ {"\\x1c", "\\x1d", "\\x1e", "\\x1f"}

RECURSIVE lstrip_of(_, _)
lstrip_of(s, chars) ==
    IF s # <<>> /\ Head(s) \in chars THEN lstrip_of(Tail(s), chars) ELSE s

RECURSIVE rstrip_of(_, _)
rstrip_of(s, chars) ==
    IF s # <<>> /\ s[Len(s)] \in chars
    THEN rstrip_of(SubSeq(s, 1, Len(s) - 1), chars)
    ELSE s

lstrip(s) == lstrip_of(s, Whitespace)
rstrip(s) == rstrip_of(s, Whitespace)

\* str.strip()
strip(s) == rstrip(lstrip(s))

\* str.isdigit()
Digits == DOMAIN DecimalValue \cup NonDecimalDigits
isdigit(s) ==
    /\ s # <<>>
    /\ \A i \in 1..Len(s) : s[i] \in Digits

\* str.lower() on the letters the model uses
lower(s) == [i \in 1..Len(s) |-> IF s[i] = "S" THEN "s" ELSE s[i]]

\* the value of a run of decimal digits, underscores skipped
RECURSIVE DecimalOf(_)
DecimalOf(s) ==
    IF s = <<>> THEN 0
    ELSE IF s[Len(s)] = "_" THEN DecimalOf(SubSeq(s, 1, Len(s) - 1))
    ELSE 10 * DecimalOf(SubSeq(s, 1, Len(s) - 1)) + DecimalValue[s[Len(s)]]

\* int(s) for a str s: surrounding whitespace and one sign are allowed, then
\* decimal digits, with single underscores between digits; anything else
\* raises ValueError.  (int() also raises ValueError beyond the interpreter's
\* digit limit, 4300 digits by default; the lines of the model are far
\* shorter.)
int_of_str(s) ==
    LET t == rstrip_of(lstrip_of(s, IntWhitespace), IntWhitespace)
        signed == t # <<>> /\ Head(t) \in {"+", "-"}
        d == IF signed THEN Tail(t) ELSE t
        digit(i) == d[i] \in DOMAIN DecimalValue
    IN  IF /\ d # <<>>
           /\ digit(1)
           /\ digit(Len(d))
           /\ \A i \in 1..Len(d) : digit(i) \/ d[i] = "_"
           /\ \A i \in 1..(Len(d) - 1) : d[i] = "_" => d[i + 1] # "_"
        THEN Ok(IF signed /\ Head(t) = "-" THEN 0 - DecimalOf(d) ELSE DecimalOf(d))
        ELSE Raise("ValueError")

(***************************************************************************)
(* JSON documents, as json.load returns them.                              *)
(***************************************************************************)
JInt(n) == [t |-> "int", n |-> n]
JFloat(tenths) == [t |-> "float", tenths |-> tenths]   \* the float tenths/10
JInfinity == [t |-> "Infinity"]
JNaN == [t |-> "NaN"]
JStr(s) == [t |-> "str", s |-> s]
JBool(b) == [t |-> "bool", b |-> b]
JNull == [t |-> "null"]
JArray == [t |-> "array"]
\* a value nested deeper than the interpreter's recursion limit, alone or as
\* a member: json.load raises RecursionError on the text that holds it
JDeep == [t |-> "deep"]
JObject(members) == [t |-> "object", members |-> members]
NotJson == [t |-> "invalid"]     \* text that json.load cannot parse

\* int(value) for a value of a loaded JSON document
int_of_json(v) ==
    CASE v.t = "int" -> Ok(v.n)
      [] v.t = "float" ->
            Ok(IF v.tenths >= 0 THEN v.tenths \div 10
               ELSE 0 - ((0 - v.tenths) \div 10))
      [] v.t = "NaN" -> Raise("ValueError")
      [] v.t = "Infinity" -> Raise("OverflowError")
      [] v.t = "str" -> int_of_str(v.s)
      [] v.t = "bool" -> Ok(IF v.b THEN 1 ELSE 0)
      [] OTHER -> Raise("TypeError")

(***************************************************************************)
(* The durable file.                                                       *)
(***************************************************************************)
Absent == [kind |-> "absent"]
\* a file that exists and that open("r") refuses with an OSError (a file
\* without the read permission)
UnreadableFile(doc) == [kind |-> "unreadable", doc |-> doc]
Unreadable == UnreadableFile(JObject("X        " :> JInt(4)))
\* a file in a directory that cannot be searched: stat() raises
\* PermissionError, which Path.exists() raises again (it only turns "not
\* found" into False), and no open() succeeds
NoAccess == [kind |-> "noaccess"]
Text(doc) == [kind |-> "text", doc |-> doc]

\* a key that json.load accepts ("\ud800", a lone surrogate) and that the
\* utf-8 encoder of save() rejects
SurrogateKey == "\\ud800"

(***************************************************************************)
(* class KnowledgeBase                                                     *)
(***************************************************************************)
\* the exceptions _load catches: JSONDecodeError and UnicodeDecodeError are
\* ValueErrors
LoadCaught == {"JSONDecodeError", "OSError", "ValueError"}

\* _load reading the stored numbers as the 1-based numbers the human types
_load_one_based(f) ==
    IF f.kind = "absent" THEN {Ok(EmptyDict)}
    ELSE IF f.kind = "noaccess" THEN {Raise("PermissionError")}
    ELSE IF f.kind = "unreadable" THEN {Ok(EmptyDict)}
    ELSE IF f.doc.t = "invalid" THEN {Ok(EmptyDict)}
    ELSE IF f.doc.t = "deep" THEN {Raise("RecursionError")}
    ELSE IF f.doc.t = "object" /\ \E k \in DOMAIN f.doc.members :
                                       f.doc.members[k].t = "deep"
    THEN {Raise("RecursionError")}
    ELSE IF f.doc.t # "object" THEN {Raise("AttributeError")}
    ELSE LET m == f.doc.members
             failing == {k \in DOMAIN m : int_of_json(m[k]).exc # "None"}
         IN  IF failing = {}
             THEN {Ok([k \in DOMAIN m |-> int_of_json(m[k]).val - 1])}
             ELSE {IF int_of_json(m[k]).exc \in LoadCaught
                   THEN Ok(EmptyDict)
                   ELSE Raise(int_of_json(m[k]).exc) : k \in failing}

\* What _load can do with the file: the set of outcomes Ok(moves) or
\* Raise(e).  The test self.file_path.exists() stands before the try, so an
\* error it raises is not caught.  The dict comprehension stops at the first member whose int()
\* raises; the order of the members in the file is not modelled, so a
\* document with several failing members has one outcome per such member.
_load(f) ==
    IF f.kind = "absent" THEN {Ok(EmptyDict)}
    ELSE IF f.kind = "noaccess" THEN {Raise("PermissionError")}
    ELSE IF f.kind = "unreadable" THEN {Ok(EmptyDict)}
    ELSE IF f.doc.t = "invalid" THEN {Ok(EmptyDict)}
    ELSE IF f.doc.t = "deep" THEN {Raise("RecursionError")}
    ELSE IF f.doc.t = "object" /\ \E k \in DOMAIN f.doc.members :
                                       f.doc.members[k].t = "deep"
    THEN {Raise("RecursionError")}
    ELSE IF f.doc.t # "object" THEN {Raise("AttributeError")}
    ELSE LET m == f.doc.members
             failing == {k \in DOMAIN m : int_of_json(m[k]).exc # "None"}
         IN  IF failing = {}
             THEN {Ok([k \in DOMAIN m |-> int_of_json(m[k]).val])}
             ELSE {IF int_of_json(m[k]).exc \in LoadCaught
                   THEN Ok(EmptyDict)
                   ELSE Raise(int_of_json(m[k]).exc) : k \in failing}

\* a dump that leaves out the pairs whose position is falsy (0)
dump_skips_zero(m) == JObject([k \in {j \in DOMAIN m : m[j] # 0} |-> JInt(m[k])])

\* json.dump(self.moves, ...): the document written
dump(m) == JObject([k \in DOMAIN m |-> JInt(m[k])])

\* The files f can be once open("w") has succeeded and doc has been written.
\* A file that exists keeps its permissions: one that could not be read
\* still cannot.  A file that did not exist is created with the permissions
\* the process's umask leaves, which may include the read permission or not.
rewritten(f, doc) ==
    IF f.kind = "unreadable" THEN {UnreadableFile(doc)}
    ELSE IF f.kind = "absent" THEN {Text(doc), UnreadableFile(doc)}
    ELSE {Text(doc)}

\* a save that appends to what the file holds instead of rewriting it
save_appends(m, f) ==
    IF f.kind = "noaccess"
    THEN {[exc |-> "OSError", file |-> f]}
    ELSE {[exc |-> "OSError", file |-> f]}
         \cup {[exc |-> "OSError", file |-> g] : g \in rewritten(f, NotJson)}
         \cup IF SurrogateKey \in DOMAIN m
              THEN {[exc |-> "UnicodeEncodeError", file |-> g] :
                        g \in rewritten(f, NotJson)}
              ELSE IF f.kind = "absent"
              THEN {[exc |-> "None", file |-> g] : g \in rewritten(f, dump(m))}
              ELSE IF f.doc.t = "object"
              THEN {[exc |-> "None", file |-> g] :
                        g \in rewritten(f, JObject(dump(m).members
                                                    @@ f.doc.members))}
              ELSE {[exc |-> "None", file |-> f]}

\* a save that catches the write error and goes on
save_swallows(m, f) ==
    IF f.kind = "noaccess"
    THEN {[exc |-> "None", file |-> f]}
    ELSE {[exc |-> "None", file |-> f]}
         \cup {[exc |-> "None", file |-> g] : g \in rewritten(f, NotJson)}
         \cup IF SurrogateKey \in DOMAIN m
              THEN {}
              ELSE {[exc |-> "None", file |-> g] : g \in rewritten(f, dump(m))}

\* What save can do: write the whole document, or fail.  open("w") failing
\* leaves the file as it was; a failure after the open leaves a truncated
\* text, which is never a complete JSON document.  A key that cannot be
\* encoded fails every write that gets past the open, with
\* UnicodeEncodeError, or with the OSError of the flush that closes the file.
save(m, f) ==
    IF f.kind = "noaccess"
    THEN {[exc |-> "OSError", file |-> f]}
    ELSE {[exc |-> "OSError", file |-> f]}
         \cup {[exc |-> "OSError", file |-> g] : g \in rewritten(f, NotJson)}
         \cup IF SurrogateKey \in DOMAIN m
              THEN {[exc |-> "UnicodeEncodeError", file |-> g] :
                        g \in rewritten(f, NotJson)}
              ELSE {[exc |-> "None", file |-> g] : g \in rewritten(f, dump(m))}

\* Optional[int]: None is <<>>, the int n is <<n>>
get_move(m, board_key) == IF board_key \in DOMAIN m THEN <<m[board_key]>> ELSE <<>>

\* self.moves[board_key] = position
setitem(m, board_key, position) ==
    [k \in DOMAIN m \cup {board_key} |-> IF k = board_key THEN position ELSE m[k]]

\* a learn_move that records the number typed, not the index
learn_move_one_based(m, f, board_key, position) ==
    LET m2 == setitem(m, board_key, position + 1)
    IN  {[exc |-> s.exc, moves |-> m2, file |-> s.file] : s \in save(m2, f)}

\* learn_move: the set of outcomes [exc, moves, file]
learn_move(m, f, board_key, position) ==
    LET m2 == setitem(m, board_key, position)
    IN  {[exc |-> s.exc, moves |-> m2, file |-> s.file] : s \in save(m2, f)}

(***************************************************************************)
(* class TicTacToe                                                         *)
(***************************************************************************)
HUMAN == "X"
AI == "O"
EMPTY == " "
WIN_PATTERNS ==
    << <<0, 1, 2>>, <<3, 4, 5>>, <<6, 7, 8>>,
       <<0, 3, 6>>, <<1, 4, 7>>, <<2, 5, 8>>,
       <<0, 4, 8>>, <<2, 4, 6>> >>

NewBoard == [i \in 1..9 |-> EMPTY]

\* is_valid_move without the test that the cell is empty
is_valid_move_range_only(b, position) == 0 <= position /\ position < 9

is_valid_move(b, position) ==
    0 <= position /\ position < 9 /\ b[position + 1] = EMPTY

\* self.board[position] = player: a list of 9 takes the indices -9..8, a
\* negative one counting from the end, and raises IndexError for the others
setitem_ok(position) == -9 <= position /\ position < 9
apply_move(b, position, player) ==
    [b EXCEPT ![(IF position < 0 THEN position + 9 ELSE position) + 1] = player]

\* a scan of the three rows only
first_line_rows_only(b, i) ==
    LET rows == {r \in 0..2 : /\ b[3 * r + 1] = b[3 * r + 2]
                              /\ b[3 * r + 2] = b[3 * r + 3]
                              /\ b[3 * r + 3] # EMPTY}
    IN  IF rows = {} THEN None
        ELSE b[3 * (CHOOSE r \in rows : \A q \in rows : r <= q) + 1]

RECURSIVE first_line(_, _)
first_line(b, i) ==
    IF i > Len(WIN_PATTERNS) THEN None
    ELSE LET p == WIN_PATTERNS[i]
         IN  IF /\ b[p[1] + 1] = b[p[2] + 1]
                /\ b[p[2] + 1] = b[p[3] + 1]
                /\ b[p[3] + 1] # EMPTY
             THEN b[p[1] + 1]
             ELSE first_line(b, i + 1)

\* check_winner without the test for a full board
check_winner_no_draw(b) == first_line(b, 1)

\* check_winner looking for a full board before it looks for a line
check_winner_draw_first(b) ==
    IF \A i \in 1..9 : b[i] # EMPTY THEN "Empate"
    ELSE first_line(b, 1)

check_winner(b) ==
    IF first_line(b, 1) # None THEN first_line(b, 1)
    ELSE IF \A i \in 1..9 : b[i] # EMPTY THEN "Empate"
    ELSE None

board_key(b) == b[1] \o b[2] \o b[3] \o b[4] \o b[5] \o b[6] \o b[7] \o b[8] \o b[9]

available_moves(b) == {p \in 0..8 : b[p + 1] = EMPTY}

\* str(n) for the numbers display() prints
str_of_int(n) ==
    CASE n = 1 -> "1" [] n = 2 -> "2" [] n = 3 -> "3" [] n = 4 -> "4"
      [] n = 5 -> "5" [] n = 6 -> "6" [] n = 7 -> "7" [] n = 8 -> "8"
      [] n = 9 -> "9"

\* display(): the text printed
row_str(b, start) ==
    LET cell(i) == IF b[start + i + 1] # EMPTY THEN b[start + i + 1]
                   ELSE str_of_int(start + i + 1)
    IN  cell(0) \o " | " \o cell(1) \o " | " \o cell(2)

display(b) ==
    "\n" \o row_str(b, 0) \o "\n---------\n" \o row_str(b, 3)
         \o "\n---------\n" \o row_str(b, 6) \o "\n"

(***************************************************************************)
(* The console.                                                            *)
(***************************************************************************)
InvalidMoveMsg == "Jugada inválida. Intenta nuevamente."
TeachIntroMsg == "Introduce el número de la casilla (1-9) en la que debería jugar la IA."
InvalidTeachMsg == "Entrada inválida. Asegúrate de elegir una casilla disponible (1-9)."
AiTurnMsg == "Turno de la IA..."
DrawMsg == "¡Empate!"
HumanWinsMsg == "¡Felicidades! Has ganado."
AiWinsMsg == "La IA ha ganado. Gracias por enseñarme."
GoodbyeMsg == "Hasta luego. ¡Gracias por ayudarme a aprender!"

\* The lines the human types, at any of the three prompts.
Lines ==
    { <<"1">>, <<"2">>, <<"3">>, <<"5">>, <<"9">>,      \* cells
      <<" ", "5", " ">>, <<"0", "3">>,                  \* cells, written otherwise
      <<"0">>, <<"1", "0">>, <<"-", "1">>,              \* numbers out of range
      <<>>, <<"x">>, <<"1", ".", "5">>,                 \* no number
      <<"²">>, <<"1", "²">>, <<"³">>,             \* digits that are no decimals
      <<"\\u0663">>,                               \* cell 3, in Arabic-Indic
      <<"\\xa0", "5", "\r">>,                       \* cell 5, whitespace around
      <<"s">>, <<" ", "S", "\t">>, <<"n">> }            \* answers to the replay prompt

(***************************************************************************)
(* What the knowledge file may hold when the program starts.               *)
(***************************************************************************)
TamperedDoc ==
    JObject(  "X        " :> JInt(0)                     \* an occupied cell
           @@ " X       " :> JInt(42)                    \* no cell at all
           @@ "  X      " :> JInt(-1)                    \* no cell at all
           @@ "    X    " :> JFloat(27)                  \* 2.7, loaded as 2
           @@ "        X" :> JStr(<<" ", "5", " ">>)     \* " 5 ", loaded as 5
           @@ "X   O    " :> JStr(<<"\n", "\\uff17", "\\x85">>) \* loaded as 7
           @@ "XX  O    " :> JStr(<<"1", "_", "0">>) )   \* "1_0", loaded as 10

\* three taught answers that let the opponent complete the line 2, 4, 6
TrainedDoc ==
    JObject(  "X        " :> JInt(4)
           @@ "XX  O    " :> JInt(2)
           @@ "XXO O   X" :> JInt(6) )

\* four taught answers with which a round can end in a draw: the human
\* plays 5, 2, 3, 4, 9 and the opponent answers 1, 8, 7, 6
DrawDoc ==
    JObject(  "    X    " :> JInt(0)
           @@ "OX  X    " :> JInt(7)
           @@ "OXX X  O " :> JInt(6)
           @@ "OXXXX OO " :> JInt(5) )

InitFiles ==
    { Absent,
      Text(dump(EmptyDict)),
      NoAccess,
      Unreadable,
      Text(NotJson),
      Text(JArray),
      Text(JDeep),
      Text(JObject("X        " :> JDeep)),
      Text(JObject("X        " :> JNull)),
      Text(JObject("X        " :> JStr(<<"x">>))),
      Text(JObject("X        " :> JInfinity)),
      Text(JObject(SurrogateKey :> JInt(1))),
      Text(TamperedDoc),
      Text(TrainedDoc),
      Text(DrawDoc) }

(***************************************************************************)
(* The program.                                                            *)
(***************************************************************************)
Init ==
    /\ pc = "play_round"
    /\ board = NewBoard
    /\ current_player = HUMAN
    /\ moves = EmptyDict
    /\ file \in InitFiles
    /\ move = <<>>
    /\ winner = None
    /\ out = ""
    /\ err = "None"
    /\ round = 0
    /\ taught = EmptyDict
    /\ applied = 0
    /\ teaches = 0

\* an uncaught exception ends the program
Crash(e) ==
    /\ pc' = "crashed"
    /\ err' = e

\* a turn after which the human stays the player to move
Turn_keeps_player(position) ==
    IF ~setitem_ok(position)
    THEN /\ Crash("IndexError")
         /\ move' = <<position>>
         /\ UNCHANGED <<board, current_player, winner, out, applied>>
    ELSE LET b == apply_move(board, position, current_player)
             w == check_winner(b)
         IN  /\ move' = <<position>>
             /\ board' = b
             /\ applied' = applied + 1
             /\ winner' = w
             /\ err' = err
             /\ IF w # None
                THEN /\ out' = (IF w = "Empate" THEN DrawMsg
                                ELSE IF w = HUMAN THEN HumanWinsMsg
                                ELSE AiWinsMsg)
                     /\ pc' = "replay_prompt"
                     /\ current_player' = current_player
                ELSE IF current_player = HUMAN
                THEN /\ current_player' = HUMAN
                     /\ out' = AiTurnMsg
                     /\ pc' = "ai_move"
                ELSE /\ current_player' = HUMAN
                     /\ out' = display(b)
                     /\ pc' = "move_prompt"

\* play_round, lines 139-152 and the head of the next iteration (131-136):
\* apply the move, look for a winner, announce it or pass the turn
Turn(position) ==
    IF ~setitem_ok(position)
    THEN /\ Crash("IndexError")
         /\ move' = <<position>>
         /\ UNCHANGED <<board, current_player, winner, out, applied>>
    ELSE LET b == apply_move(board, position, current_player)
             w == check_winner(b)
         IN  /\ move' = <<position>>
             /\ board' = b
             /\ applied' = applied + 1
             /\ winner' = w
             /\ err' = err
             /\ IF w # None
                THEN /\ out' = (IF w = "Empate" THEN DrawMsg
                                ELSE IF w = HUMAN THEN HumanWinsMsg
                                ELSE AiWinsMsg)
                     /\ pc' = "replay_prompt"
                     /\ current_player' = current_player
                ELSE IF current_player = HUMAN
                THEN /\ current_player' = AI
                     /\ out' = AiTurnMsg
                     /\ pc' = "ai_move"
                ELSE /\ current_player' = HUMAN
                     /\ out' = display(b)
                     /\ pc' = "move_prompt"

\* a round that starts with whoever moved last in the round before
StartRound_keeps_player ==
    /\ pc = "play_round"
    /\ round' = round + 1
    /\ board' = NewBoard
    /\ applied' = 0
    /\ teaches' = 0
    /\ \E r \in _load(file) :
          IF r.exc = "None"
          THEN /\ moves' = r.val
               /\ current_player' = current_player
               /\ out' = display(NewBoard)
               /\ pc' = "move_prompt"
               /\ err' = err
          ELSE /\ moves' = EmptyDict
               /\ Crash(r.exc)
               /\ UNCHANGED <<current_player, out>>
    /\ UNCHANGED <<file, move, winner, taught>>

\* a round in which the opponent moves first
StartRound_ai_first ==
    /\ pc = "play_round"
    /\ round' = round + 1
    /\ board' = NewBoard
    /\ applied' = 0
    /\ teaches' = 0
    /\ \E r \in _load(file) :
          IF r.exc = "None"
          THEN /\ moves' = r.val
               /\ current_player' = AI
               /\ out' = AiTurnMsg
               /\ pc' = "ai_move"
               /\ err' = err
          ELSE /\ moves' = EmptyDict
               /\ Crash(r.exc)
               /\ UNCHANGED <<current_player, out>>
    /\ UNCHANGED <<file, move, winner, taught>>

\* play_round, lines 124-131: a new board, the knowledge base loaded from the
\* file, the human to move
StartRound ==
    /\ pc = "play_round"
    /\ round' = round + 1
    /\ board' = NewBoard
    /\ applied' = 0
    /\ teaches' = 0
    /\ \E r \in _load(file) :
          IF r.exc = "None"
          THEN /\ moves' = r.val
               /\ current_player' = HUMAN
               /\ out' = display(NewBoard)
               /\ pc' = "move_prompt"
               /\ err' = err
          ELSE /\ moves' = EmptyDict
               /\ Crash(r.exc)
               /\ UNCHANGED <<current_player, out>>
    /\ UNCHANGED <<file, move, winner, taught>>

\* request_human_move, line 99: a rejected line that also passes the turn
RejectMove_PassesTurn ==
    /\ out' = InvalidMoveMsg
    /\ pc' = "ai_move"
    /\ current_player' = AI
    /\ UNCHANGED <<board, move, winner, err, applied>>

\* request_human_move, line 99: the message, and the loop prompts again
RejectMove ==
    /\ out' = InvalidMoveMsg
    /\ UNCHANGED <<pc, board, current_player, move, winner, err, applied>>

\* request_human_move: one line read at the move prompt
request_human_move(line) ==
    LET choice == strip(line)
        n == int_of_str(choice)
    IN  IF isdigit(choice) /\ n.exc # "None"
        THEN /\ Crash(n.exc)
             /\ UNCHANGED <<board, current_player, move, winner, out, applied>>
        ELSE IF isdigit(choice) /\ is_valid_move(board, n.val - 1)
        THEN Turn(n.val - 1)
        ELSE RejectMove

HumanInput ==
    /\ pc = "move_prompt"
    /\ \E line \in Lines : request_human_move(line)
    /\ UNCHANGED <<moves, file, round, taught, teaches>>

\* ai_move without the re-check of the stored move
AiMove_trusts_store ==
    /\ pc = "ai_move"
    /\ LET stored_move == get_move(moves, board_key(board))
       IN  IF stored_move # <<>>
           THEN /\ Turn(stored_move[1])
                /\ teaches' = teaches
           ELSE /\ pc' = "teach_prompt"
                /\ out' = TeachIntroMsg
                /\ teaches' = teaches + 1
                /\ UNCHANGED <<board, current_player, move, winner, err, applied>>
    /\ UNCHANGED <<moves, file, round, taught>>

\* ai_move: the stored move if there is one and it is valid, else the teach
\* flow, which prints its two lines and prompts
AiMove ==
    /\ pc = "ai_move"
    /\ LET stored_move == get_move(moves, board_key(board))
       IN  IF stored_move # <<>> /\ is_valid_move(board, stored_move[1])
           THEN /\ Turn(stored_move[1])
                /\ teaches' = teaches
           ELSE /\ pc' = "teach_prompt"
                /\ out' = TeachIntroMsg
                /\ teaches' = teaches + 1
                /\ UNCHANGED <<board, current_player, move, winner, err, applied>>
    /\ UNCHANGED <<moves, file, round, taught>>

\* ask_for_learning, line 112: the message, and the loop prompts again
RejectTeach ==
    /\ out' = InvalidTeachMsg
    /\ UNCHANGED <<pc, board, current_player, move, winner, err,
                   moves, file, taught, applied>>

\* ask_for_learning: one line read at the teach prompt
ask_for_learning(line) ==
    LET answer == strip(line)
        n == int_of_str(answer)
    IN  IF isdigit(answer) /\ n.exc # "None"
        THEN /\ Crash(n.exc)
             /\ UNCHANGED <<board, current_player, move, winner, out,
                            moves, file, taught, applied>>
        ELSE IF isdigit(answer) /\ is_valid_move(board, n.val - 1)
        THEN \E l \in learn_move(moves, file, board_key(board), n.val - 1) :
                /\ moves' = l.moves
                /\ file' = l.file
                /\ IF l.exc = "None"
                   THEN /\ taught' = setitem(taught, board_key(board), n.val - 1)
                        /\ Turn(n.val - 1)
                   ELSE /\ Crash(l.exc)
                        /\ UNCHANGED <<board, current_player, move, winner,
                                       out, taught, applied>>
        ELSE RejectTeach

TeachInput ==
    /\ pc = "teach_prompt"
    /\ \E line \in Lines : ask_for_learning(line)
    /\ UNCHANGED <<round, teaches>>

\* main: one line read at the replay prompt.  The human asks for another
\* round at most MaxRounds - 1 times.
replay(line) ==
    LET again == lower(strip(line))
    IN  IF again # <<"s">>
        THEN /\ out' = GoodbyeMsg
             /\ pc' = "done"
        ELSE /\ round < MaxRounds
             /\ pc' = "play_round"
             /\ out' = out

ReplayInput ==
    /\ pc = "replay_prompt"
    /\ \E line \in Lines : replay(line)
    /\ UNCHANGED <<board, current_player, moves, file, move, winner, err,
                   round, taught, applied, teaches>>

Next ==
    \/ StartRound
    \/ HumanInput
    \/ AiMove
    \/ TeachInput
    \/ ReplayInput

Spec == Init /\ [][Next]_vars

(***************************************************************************)
(* One round of the program on the whole board, from a file that holds   *)
(* the empty mapping, the replay declined.  The human types any of the    *)
(* nine cell numbers at the move prompt and seven of them at the teach    *)
(* prompt (a row, a column and both diagonals among them), besides lines  *)
(* that are rejected.  Starting with an empty store, the opponent asks to *)
(* be taught at each of its turns.                                        *)
(***************************************************************************)
CellLines ==
    { <<"1">>, <<"2">>, <<"3">>, <<"4">>, <<"5">>, <<"6">>, <<"7">>, <<"8">>,
      <<"9">>, <<"0">>, <<"x">> }

PlayTeachLines ==
    { <<"1">>, <<"2">>, <<"3">>, <<"4">>, <<"5">>, <<"7">>, <<"9">>,
      <<"0">>, <<"x">> }

RoundReplayLines == { <<"n">>, <<>> }

PlayInit == Init /\ file = Text(dump(EmptyDict))

PlayHuman ==
    /\ pc = "move_prompt"
    /\ \E line \in CellLines : request_human_move(line)
    /\ UNCHANGED <<moves, file, round, taught, teaches>>

PlayTeach ==
    /\ pc = "teach_prompt"
    /\ \E line \in PlayTeachLines : ask_for_learning(line)
    /\ UNCHANGED <<round, teaches>>

RoundReplay ==
    /\ pc = "replay_prompt"
    /\ \E line \in RoundReplayLines : replay(line)
    /\ UNCHANGED <<board, current_player, moves, file, move, winner, err,
                   round, taught, applied, teaches>>

PlayNext ==
    \/ StartRound
    \/ PlayHuman
    \/ AiMove
    \/ PlayTeach
    \/ RoundReplay

PlaySpec == PlayInit /\ [][PlayNext]_vars

(***************************************************************************)
(* Such a round from an absent file, which the first teach creates, with *)
(* fewer lines: the human types six of the cell                           *)
(* numbers at the move prompt and five at the teach prompt, which lets    *)
(* the round end in a win of either side or in a draw after four taught   *)
(* moves.                                                                  *)
(***************************************************************************)
RoundMoveLines ==
    { <<"1">>, <<"3">>, <<"4">>, <<"5">>, <<"8">>, <<"9">>, <<"0">>, <<"x">> }

RoundTeachLines ==
    { <<"2">>, <<"5">>, <<"6">>, <<"7">>, <<"8">>, <<"0">>, <<"x">> }

RoundHuman ==
    /\ pc = "move_prompt"
    /\ \E line \in RoundMoveLines : request_human_move(line)
    /\ UNCHANGED <<moves, file, round, taught, teaches>>

RoundTeach ==
    /\ pc = "teach_prompt"
    /\ \E line \in RoundTeachLines : ask_for_learning(line)
    /\ UNCHANGED <<round, teaches>>

RoundNext ==
    \/ StartRound
    \/ RoundHuman
    \/ AiMove
    \/ RoundTeach
    \/ RoundReplay

RoundInit == Init /\ file = Absent

RoundSpec == RoundInit /\ [][RoundNext]_vars

\* The program's own steps are taken: a round that is to start starts, and
\* the opponent's turn looks its move up.  What the human types, and when,
\* is left open.
FairRoundSpec == RoundSpec /\ WF_vars(StartRound) /\ WF_vars(AiMove)

(***************************************************************************)
(* Rounds and replays in which a round can end in each of the three ways, *)
(* from every initial file: with the taught answers of DrawDoc a round    *)
(* can end in a draw, with those of TrainedDoc in a win of the opponent.  *)
(* The human types six of the cell numbers at the move prompt, two at the *)
(* teach prompt, and accepts or declines the replay.                      *)
(***************************************************************************)
RematchMoveLines ==
    { <<"1">>, <<"2">>, <<"3">>, <<"4">>, <<"5">>, <<"9">>, <<"0">> }

RematchTeachLines == { <<"5">>, <<"8">>, <<"x">> }

RematchReplayLines == { <<"s">>, <<"n">> }

RematchHuman ==
    /\ pc = "move_prompt"
    /\ \E line \in RematchMoveLines : request_human_move(line)
    /\ UNCHANGED <<moves, file, round, taught, teaches>>

RematchTeach ==
    /\ pc = "teach_prompt"
    /\ \E line \in RematchTeachLines : ask_for_learning(line)
    /\ UNCHANGED <<round, teaches>>

RematchReplay ==
    /\ pc = "replay_prompt"
    /\ \E line \in RematchReplayLines : replay(line)
    /\ UNCHANGED <<board, current_player, moves, file, move, winner, err,
                   round, taught, applied, teaches>>

RematchNext ==
    \/ StartRound
    \/ RematchHuman
    \/ AiMove
    \/ RematchTeach
    \/ RematchReplay

RematchSpec == Init /\ [][RematchNext]_vars

(***************************************************************************)
(* Properties.                                                             *)
(***************************************************************************)
WriteErrors == {"OSError", "UnicodeEncodeError"}

\* the content of the file is the document doc
FileIs(f, doc) == f.kind \in {"text", "unreadable"} /\ f.doc = doc

\* the file holds the pair key: position
FileHolds(f, key, position) ==
    /\ f.kind \in {"text", "unreadable"}
    /\ f.doc.t = "object"
    /\ key \in DOMAIN f.doc.members
    /\ f.doc.members[key] = JInt(position)

\* a step in which the teach flow returns a position
TeachCompletes == pc = "teach_prompt" /\ pc' \notin {"teach_prompt", "crashed"}

\* what C1 says of a step
TaughtMoveIsReplayed ==
    /\ (pc = "ai_move" /\ board_key(board) \in DOMAIN taught) =>
           /\ pc' \notin {"teach_prompt", "crashed"}
           /\ move' = <<taught[board_key(board)]>>
           /\ board' = [board EXCEPT ![taught[board_key(board)] + 1] = AI]
    /\ (pc' = "teach_prompt" /\ pc # "teach_prompt") =>
           board_key(board) \notin DOMAIN taught
    /\ taught' # taught =>
           /\ board_key(board) \notin DOMAIN taught
           /\ \A k \in DOMAIN taught : k \in DOMAIN taught' /\ taught'[k] = taught[k]

\* C1 (as claimed): once the teach flow has recorded move m for board key k,
\* every later opponent turn on a board whose key is k, in this round or
\* after any number of reloads of the file, plays m without entering the
\* teach flow; so the teach flow is entered, and records, at most once per
\* board key.
C1_TaughtMoveIsReplayed == [][TaughtMoveIsReplayed]_vars

\* C1 (amended): the same, for a file that the program can read back.
C1_TaughtMoveIsReplayedIfReadable ==
    [][file.kind # "unreadable" => TaughtMoveIsReplayed]_vars

\* an opponent turn, in a later round, on a board whose key was taught
C1_Witness ==
    /\ pc = "ai_move"
    /\ round > 1
    /\ board_key(board) \in DOMAIN taught
    /\ file = Text(dump(moves))

\* C2: when the teach flow completes with position p on board b, the store
\* maps the key of b (before the move) to p, the file holds that pair, and
\* p is the move applied for the opponent.
C2_TeachRecordsAndPlays ==
    [][TeachCompletes =>
          \E p \in available_moves(board) :
              /\ move' = <<p>>
              /\ board' = [board EXCEPT ![p + 1] = AI]
              /\ get_move(moves', board_key(board)) = <<p>>
              /\ FileHolds(file', board_key(board), p)
      ]_vars

\* the opponent has just played a move that the teach flow recorded in this
\* round, on a board that already held three marks
C2_Witness ==
    /\ move # <<>>
    /\ board[move[1] + 1] = AI
    /\ Cardinality(available_moves(board)) = 5
    /\ LET k == board_key([board EXCEPT ![move[1] + 1] = EMPTY])
       IN  /\ k \in DOMAIN taught
           /\ get_move(moves, k) = move
           /\ FileHolds(file, k, move[1])

\* C3: when a teach call returns, the content of the file is the whole
\* in-memory mapping and nothing else; and from the first teach call that
\* returns on, in every state in which no write has failed, the file holds
\* every pair of the in-memory mapping.
C3_FileIsWholeMapping ==
    [][/\ TeachCompletes => FileIs(file', dump(moves'))
       /\ (taught' # EmptyDict /\ err' \notin WriteErrors) =>
              \A k \in DOMAIN moves' : FileHolds(file', k, moves'[k])
      ]_vars

\* after a teach, a store that holds pairs loaded from the file beside the
\* taught one
C3_Witness ==
    /\ taught # EmptyDict
    /\ err = "None"
    /\ \E k \in DOMAIN moves : k \notin DOMAIN taught
    /\ file = Text(dump(moves))

\* C4 (as claimed): whatever mapping the program holds, a save that succeeds
\* followed by a load yields the same pairs.
C4_SaveLoadRoundTrip ==
    \A s \in save(moves, file) : s.exc = "None" => _load(s.file) = {Ok(moves)}

\* a step that starts a replay after a round in which the teach flow was
\* entered: every teach of that round returned, so the file is the one the
\* last of them saved the mapping in
ReloadsSavedFile == pc = "play_round" /\ round > 0 /\ teaches > 0

\* C4 (amended): when the program can read the file, saving and loading
\* yields the same pairs.  In the program: a round that starts after a round
\* that saved its mapping, on a file it can read, builds its store without
\* an error and with exactly the pairs the round before held.  And whatever
\* mapping the program holds, a save of it that succeeds and leaves a file
\* the program can read, followed by a load, yields the same pairs.
C4_ReadableRoundTrip ==
    /\ [][(ReloadsSavedFile /\ file.kind # "unreadable") =>
              (pc' = "move_prompt" /\ moves' = moves)]_vars
    /\ [](\A s \in save(moves, file) :
              (s.exc = "None" /\ s.file.kind # "unreadable") =>
                  _load(s.file) = {Ok(moves)})

\* a later round has reloaded a file written by the teach flow, with a
\* negative and an out-of-range value among the pairs
C4_Witness ==
    /\ round > 1
    /\ pc = "move_prompt"
    /\ board = NewBoard
    /\ taught # EmptyDict
    /\ \E k \in DOMAIN moves : moves[k] < 0
    /\ file = Text(dump(moves))

\* C5 (as claimed): building the knowledge base at the start of a round never
\* fails, whatever the file holds.
C5_LoadNeverFails ==
    [][pc = "play_round" => pc' = "move_prompt"]_vars

\* C6: a write failure during a teach ends the program: the error is not
\* swallowed, no move is applied, nothing more is printed or asked, and a
\* program that has ended takes no step.
C6_WriteFailureIsFatal ==
    [][/\ (pc = "teach_prompt" /\ (moves' # moves \/ file' # file \/ err' \in WriteErrors)
                                /\ ~FileIs(file', dump(moves'))) =>
              /\ pc' = "crashed"
              /\ err' \in WriteErrors
              /\ board' = board
              /\ move' = move
              /\ out' = out
       /\ (pc = "teach_prompt" /\ err' \in WriteErrors) =>
              /\ pc' = "crashed"
              /\ board' = board
              /\ move' = move
              /\ out' = out
       /\ pc \notin {"crashed", "done"}
      ]_vars

\* the program ended by a write failure, the taught pair in memory only
C6_Witness ==
    /\ pc = "crashed"
    /\ err = "OSError"
    /\ moves # EmptyDict
    /\ ~FileIs(file, dump(moves))

\* the 8 lines: 3 rows, 3 columns, 2 diagonals
Rows == {{3 * r, 3 * r + 1, 3 * r + 2} : r \in 0..2}
Columns == {{c, c + 3, c + 6} : c \in 0..2}
Diagonals == {{0, 4, 8}, {2, 4, 6}}
HasLine(b, mark) ==
    \E l \in Rows \cup Columns \cup Diagonals : \A p \in l : b[p + 1] = mark

\* C7: on every board reached in play, check_winner returns a mark iff one
\* of the 8 lines is filled with that mark, "Empate" iff no line is filled
\* and no cell is empty, and None otherwise; the round ends with that result
\* as soon as it is not None.
C7_CheckWinnerIsCorrect ==
    LET w == check_winner(board)
        full == \A p \in 0..8 : board[p + 1] # EMPTY
    IN  /\ \A mark \in {HUMAN, AI} : (w = mark) <=> HasLine(board, mark)
        /\ (w = "Empate") <=> (~HasLine(board, HUMAN) /\ ~HasLine(board, AI) /\ full)
        /\ (w = None) <=> (~HasLine(board, HUMAN) /\ ~HasLine(board, AI) /\ ~full)
        /\ (pc = "replay_prompt") => (winner = w /\ w # None)
        /\ (pc \in {"move_prompt", "ai_move", "teach_prompt"}) => w = None

\* the ninth move has completed a line: a win, on a full board
C7_Witness ==
    /\ pc = "replay_prompt"
    /\ \A p \in 0..8 : board[p + 1] # EMPTY
    /\ HasLine(board, HUMAN)
    /\ winner = HUMAN
    /\ out = HumanWinsMsg

\* C8: whatever the store holds, the opponent's move is the index of a cell
\* that is empty; the stored move is used iff it exists and is valid, and
\* otherwise the teach flow supplies the move and overwrites the entry.
C8_OpponentMoveIsValid ==
    [][/\ (pc \in {"ai_move", "teach_prompt"} /\ board' # board) =>
              /\ move' # <<>>
              /\ move'[1] \in available_moves(board)
              /\ board' = [board EXCEPT ![move'[1] + 1] = AI]
       /\ pc = "ai_move" =>
              LET stored_move == get_move(moves, board_key(board))
              IN  IF stored_move # <<>> /\ stored_move[1] \in available_moves(board)
                  THEN move' = stored_move /\ pc' # "teach_prompt"
                  ELSE pc' = "teach_prompt" /\ board' = board
       /\ TeachCompletes => get_move(moves', board_key(board)) = move'
      ]_vars

\* the teach flow has replaced the stale entry of a tampered file (an
\* occupied cell), beside an entry that names no cell
C8_Witness ==
    /\ "X        " \in DOMAIN taught
    /\ get_move(moves, "X        ") = move
    /\ get_move(moves, " X       ") = <<42>>
    /\ board[1] = HUMAN
    /\ board[move[1] + 1] = AI

\* C9 (as claimed): no line typed at the move prompt or at the teach prompt
\* ends the program, other than by a failed write of an accepted teach.
C9_InputNeverFatal ==
    [][(pc \in {"move_prompt", "teach_prompt"} /\ pc' = "crashed") =>
          err' \in WriteErrors]_vars

\* a step that prints one of the two invalid-input messages: the line read
\* was neither accepted nor the cause of an exception
Rejected ==
    /\ pc \in {"move_prompt", "teach_prompt"}
    /\ out' \in {InvalidMoveMsg, InvalidTeachMsg}
    /\ err' = err

\* C10: a rejected line changes neither the board, nor the player to move,
\* nor the store, nor the file, and the same prompt is issued again.
C10_RejectedInputChangesNothing ==
    [][Rejected =>
          /\ pc' = pc
          /\ board' = board
          /\ current_player' = current_player
          /\ moves' = moves
          /\ file' = file
          /\ out' = (IF pc = "move_prompt" THEN InvalidMoveMsg ELSE InvalidTeachMsg)
      ]_vars

\* a line was rejected at the teach prompt, after the store has learnt
C10_Witness ==
    /\ pc = "teach_prompt"
    /\ out = InvalidTeachMsg
    /\ taught # EmptyDict

\* the cells that hold a mark
marked(b, mark) == {p \in 0..8 : b[p + 1] = mark}
occupied(b) == {p \in 0..8 : b[p + 1] # EMPTY}

\* C11: every round, the first and every replay, whatever the result of the
\* round before, starts with 9 empty cells, no move applied and the human to
\* move; starting a round leaves the file as it is, and the mapping the round
\* starts with is the one read from the file.
C11_RoundStartsFresh ==
    [][pc = "play_round" =>
          /\ board' = NewBoard
          /\ applied' = 0
          /\ file' = file
          /\ pc' \in {"move_prompt", "crashed"}
          /\ pc' = "move_prompt" =>
                 /\ current_player' = HUMAN
                 /\ Ok(moves') \in _load(file)
      ]_vars

\* a replay has started after a round that ended in a draw (winner still
\* shows the result of the round before), with the store read from the file
C11_Witness ==
    /\ round > 1
    /\ pc = "move_prompt"
    /\ winner = "Empate"
    /\ board = NewBoard
    /\ applied = 0
    /\ current_player = HUMAN
    /\ moves # EmptyDict

\* C12: within a round every applied move turns exactly one empty cell into
\* the mover's mark, the board changes in no other way, and the number of
\* non-empty cells is the number of moves applied in the round.
C12_MovesFillEmptyCells ==
    [][/\ applied' = applied + 1 =>
              \E p \in 0..8 :
                  /\ board[p + 1] = EMPTY
                  /\ board' = [board EXCEPT ![p + 1] = current_player]
       /\ (board' # board /\ pc # "play_round") => applied' = applied + 1
       /\ Cardinality(occupied(board')) = applied'
      ]_vars

\* four moves applied, the second of them taught in place of a stored move
\* that named the cell the human had just taken
C12_Witness ==
    /\ applied = 4
    /\ Cardinality(occupied(board)) = 4
    /\ "X        " \in DOMAIN taught
    /\ get_move(moves, " X       ") = <<42>>
    /\ board[1] = HUMAN

\* C13 (as claimed): every value of the in-memory mapping is a cell index.
C13_AllValuesAreCells ==
    \A k \in DOMAIN moves : moves[k] \in 0..8

\* C13 (amended): every value a teach writes into the in-memory mapping is a
\* cell index in 0..8; a value outside 0..8 enters the mapping only when
\* _load reads it from the file, which it does without a range check.
C13_OnlyLoadedValuesOutOfRange ==
    [][/\ pc # "play_round" =>
              \A k \in DOMAIN moves' :
                  \/ moves'[k] \in 0..8
                  \/ k \in DOMAIN moves /\ moves[k] = moves'[k]
       /\ pc = "play_round" =>
              \A k \in DOMAIN moves' :
                  \/ moves'[k] \in 0..8
                  \/ /\ file.kind = "text"
                     /\ file.doc.t = "object"
                     /\ k \in DOMAIN file.doc.members
                     /\ int_of_json(file.doc.members[k]) = Ok(moves'[k])
      ]_vars

\* a store with a value loaded from the file that is no cell index, beside a
\* taught value for the last cell
C13_Witness ==
    /\ \E k \in DOMAIN moves : moves[k] = 42
    /\ \E k \in DOMAIN taught : taught[k] = 8 /\ get_move(moves, k) = <<8>>

\* C14: within a round the turn alternates: the mover of an applied move is
\* the player to move and never the mover of the move before; the player to
\* move changes after every applied move that does not end the round and at
\* no other step; and the X marks are as many as the O marks or one more.
C14_TurnsAlternate ==
    [][/\ applied' = applied + 1 =>
              /\ \E p \in 0..8 : board' = [board EXCEPT ![p + 1] = current_player]
              /\ applied > 0 => board[move[1] + 1] # current_player
              /\ pc' # "replay_prompt" => current_player' # current_player
       /\ (applied' = applied /\ pc # "play_round") =>
              current_player' = current_player
       /\ Cardinality(marked(board', HUMAN)) - Cardinality(marked(board', AI))
              \in {0, 1}
      ]_vars

\* eight moves applied in turn, the human to move
C14_Witness ==
    /\ applied = 8
    /\ pc = "move_prompt"
    /\ current_player = HUMAN
    /\ Cardinality(marked(board, HUMAN)) = 4
    /\ Cardinality(marked(board, AI)) = 4

\* the lines of a board that one mark fills
filled_lines(b) ==
    {l \in Rows \cup Columns \cup Diagonals :
        \E mark \in {HUMAN, AI} : \A p \in l : b[p + 1] = mark}

\* C15: on every board reached in play at most one mark fills a line, so
\* whichever filled line a scan finds first, it finds the same mark: the one
\* that check_winner returns.
C15_OneMarkFillsALine ==
    LET marks == {board[p + 1] : p \in UNION filled_lines(board)}
    IN  /\ Cardinality(marks) <= 1
        /\ marks # {} => marks = {check_winner(board)}
        /\ marks # {} => pc \notin {"move_prompt", "ai_move", "teach_prompt"}

\* two lines are filled at once, where the order of the scan decides which
\* line is found
C15_Witness ==
    /\ Cardinality(filled_lines(board)) = 2
    /\ pc = "replay_prompt"
    /\ winner = HUMAN

\* the program is inside a round, at a prompt or about to move
InRound == pc \in {"move_prompt", "ai_move", "teach_prompt"}

\* each prompt receives an accepted input in the end: only an accepted line
\* (or a line that ends the program) leaves a prompt
PromptsAnswered ==
    /\ (pc = "move_prompt") ~> (pc # "move_prompt")
    /\ (pc = "teach_prompt") ~> (pc # "teach_prompt")

\* what C16 says of the moves of a round: at most 9 are applied, a round is
\* over with the move that yields its result, and none is applied after it
RoundIsBounded ==
    /\ applied' <= 9
    /\ (pc' = "replay_prompt" /\ pc # "replay_prompt") =>
           /\ winner' \in {HUMAN, AI, "Empate"}
           /\ applied' = applied + 1
    /\ pc \in {"replay_prompt", "done"} =>
           board' = board /\ applied' = applied

\* C16 (as claimed): if each prompt receives an accepted input in the end,
\* every round reaches a win of the human, a win of the opponent or a draw,
\* after at most 9 applied moves, and no move is applied after the result.
C16_RoundReachesResult ==
    /\ [][RoundIsBounded]_vars
    /\ PromptsAnswered => (InRound ~> (pc = "replay_prompt"))

\* C16 (amended): if each prompt receives an accepted input in the end and no
\* write of the knowledge file fails, every round reaches a win of the
\* human, a win of the opponent or a draw; at most 9 moves are applied in a
\* round and none after the result; and as long as the round has no result
\* a cell is free, so that some input can be accepted.
C16_RoundTerminates ==
    /\ [][RoundIsBounded /\ (InRound' => available_moves(board') # {})]_vars
    /\ (PromptsAnswered /\ [](err \notin WriteErrors)) =>
           (InRound ~> (pc = "replay_prompt"))

\* a round has ended in a draw with the ninth move
C16_Witness ==
    /\ pc = "replay_prompt"
    /\ winner = "Empate"
    /\ applied = 9

\* C17: a round that ends with a winning mark ends with the mark of the
\* player who applied the last move; a draw is found only after the human's
\* fifth move, the ninth of the round; the opponent applies at most 4 moves
\* and the teach flow is entered at most 4 times in a round.
C17_LastMoverWins ==
    /\ (pc \in {"replay_prompt", "done"} /\ winner \in {HUMAN, AI}) =>
           /\ winner = current_player
           /\ board[move[1] + 1] = winner
    /\ (pc \in {"replay_prompt", "done"} /\ winner = "Empate") =>
           /\ current_player = HUMAN
           /\ board[move[1] + 1] = HUMAN
           /\ applied = 9
           /\ Cardinality(marked(board, HUMAN)) = 5
    /\ (pc \in {"replay_prompt", "done"}) <=> (winner # None)
    /\ Cardinality(marked(board, AI)) <= 4
    /\ teaches <= 4
    /\ teaches <= Cardinality(marked(board, AI)) + 1

\* a draw after the ninth move, every one of the opponent's four moves taught
C17_Witness ==
    /\ pc = "replay_prompt"
    /\ winner = "Empate"
    /\ teaches = 4
    /\ Cardinality(DOMAIN taught) = 4

====
